---------------------------- MODULE Spec2Model ----------------------------
(***************************************************************************)
(* A model of the typed parameter/result layer of foundation:              *)
(*   - oracle/src/values.rs: the value codecs (ValueProjector encoders     *)
(*     and From<&ResultValue> decoders) over raw cells and indicators;     *)
(*   - server/src/application/query.rs: DynamicQuery (construction from a  *)
(*     primary key or from column filters, SQL generation, the dynamic     *)
(*     params- and results-providers).                                     *)
(* Strings whose characters the code inspects (parameter values) are       *)
(* sequences of one-character strings; identifiers are plain strings.      *)
(* Rust's 0-based indices are kept 0-based in the data and shifted by one  *)
(* where a TLA+ sequence is indexed.                                       *)
(***************************************************************************)
EXTENDS Integers, Sequences, FiniteSets, TLC

VARIABLES
    pc,        \* position of the DynamicQuery pipeline / of the codec harness
    call,      \* the arguments of the last create_from_* call
    result,    \* what that call returned: Ok(DynamicQuery), Err(text) or a panic
    stmt,      \* prepare_query's output: sql, both providers, the parsed params
    pshape,    \* param buffer: the declared capacity of each slot
    pmem,      \* param buffer: its bytes, slot after slot (data, then indicator)
    fault,     \* "none", or how the process ended abnormally
    slots,     \* the slot indices project_values has indexed, in order
    written,   \* per slot: the value most recently handed to project_value
    ret,       \* the length returned by the last writer closure
    rs,        \* the row view handed to the results side (a sequence of cells)
    decoded,   \* the outcome of the last From<&ResultValue> conversion
    rendered   \* gen_result's output: the key/value pairs and the text

vars == <<pc, call, result, stmt, pshape, pmem, fault, slots, written, ret,
          rs, decoded, rendered>>

-----------------------------------------------------------------------------
(* Bounds of the model.                                                    *)

\* the longest filter list handed to create_from_params
MaxFilters == 2

\* the number of project_value calls the codec harness makes on a buffer
MaxWrites == 2

-----------------------------------------------------------------------------
(* Small helpers.                                                          *)

None == [kind |-> "None"]

RECURSIVE JoinStr(_, _)
\* [String]::join(sep)
JoinStr(ss, sep) ==
    IF Len(ss) = 0 THEN ""
    ELSE IF Len(ss) = 1 THEN ss[1]
    ELSE ss[1] \o sep \o JoinStr(Tail(ss), sep)

RECURSIVE Concat(_)
\* the text of a character sequence
Concat(cs) == IF Len(cs) = 0 THEN "" ELSE cs[1] \o Concat(Tail(cs))

Digits == <<"0", "1", "2", "3", "4", "5", "6", "7", "8", "9">>

IsDigit(c) == \E d \in 1..10 : Digits[d] = c

DigitOf(c) == (CHOOSE d \in 1..10 : Digits[d] = c) - 1

-----------------------------------------------------------------------------
(* Catalog metadata (mi::TableInfo), the input of DynamicQuery.            *)

\* the declared byte width of a column of each SqlType
TypeWidth(tp, declared) ==
    CASE tp = "Int16"    -> 2
      [] tp = "UInt16"   -> 2
      [] tp = "Boolean"  -> 2
      [] tp = "Int32"    -> 4
      [] tp = "UInt32"   -> 4
      [] tp = "Int64"    -> 8
      [] tp = "UInt64"   -> 8
      [] tp = "Float64"  -> 8
      [] tp = "Date"     -> 7
      [] tp = "DateTime" -> 11
      [] OTHER           -> declared

\* oracle::TypeDescriptor of a column: logical type and declared width
TypeDescriptor(tp, declared) == [tp |-> tp, size |-> TypeWidth(tp, declared)]

\* mi::ColumnInfo
ColumnInfo(name, tp, declared) ==
    [name |-> name, col_type |-> tp, oci_data_type |-> TypeDescriptor(tp, declared)]

schema_name == "HR"

\* table_info of the table the queries are built for
table_info ==
    [name    |-> "EMP",
     columns |-> << ColumnInfo("ID", "Int32", 0),
                    ColumnInfo("NAME", "Varchar", 4),
                    ColumnInfo("HIRED", "Date", 0),
                    ColumnInfo("AGE", "Int16", 0),
                    ColumnInfo("SALARY", "Int64", 0),
                    ColumnInfo("UPDATED", "DateTime", 0) >>]

\* table_info.primary_key over the catalogs considered: absent, one column
\* (0-based index into columns), or composite
PrimaryKeys ==
    {None} \cup {[kind |-> "Some", column_indices |-> <<i>>] : i \in 0..5}
           \cup {[kind |-> "Some", column_indices |-> <<0, 1>>]}

\* the stringified values a caller passes: valid numbers, the empty string,
\* text, a number outside i16 and a number outside i64 (and i32)
ParamStrings ==
    { <<"7">>, <<"-", "1">>, <<>>, <<"a", "b", "c">>,
      <<"4", "0", "0", "0", "0">>,
      <<"9", "2", "2", "3", "3", "7", "2", "0", "3", "6",
        "8", "5", "4", "7", "7", "5", "8", "0", "8">> }

\* the column names a caller passes; FOO is no column of the table
ParamNames == {"ID", "NAME", "HIRED", "AGE", "SALARY", "FOO"}

-----------------------------------------------------------------------------
(* str::parse::<iN>() as ParsedParameter::parse uses it.                   *)

RECURSIVE StripZeros(_)
StripZeros(ds) ==
    IF Len(ds) > 0 /\ ds[1] = "0" THEN StripZeros(Tail(ds)) ELSE ds

RECURSIVE DigitsLE(_, _)
\* a <= b for two digit strings of the same length
DigitsLE(a, b) ==
    IF Len(a) = 0 THEN TRUE
    ELSE IF DigitOf(a[1]) < DigitOf(b[1]) THEN TRUE
    ELSE IF DigitOf(a[1]) > DigitOf(b[1]) THEN FALSE
    ELSE DigitsLE(Tail(a), Tail(b))

\* the largest magnitude of iN, as a digit string: iN::MAX, or -iN::MIN
MaxMagnitude(bits, neg) ==
    CASE bits = 16 -> IF neg THEN <<"3", "2", "7", "6", "8">>
                             ELSE <<"3", "2", "7", "6", "7">>
      [] bits = 32 -> IF neg THEN <<"2", "1", "4", "7", "4", "8", "3", "6", "4", "8">>
                             ELSE <<"2", "1", "4", "7", "4", "8", "3", "6", "4", "7">>
      [] OTHER     -> IF neg THEN <<"9", "2", "2", "3", "3", "7", "2", "0", "3", "6",
                                    "8", "5", "4", "7", "7", "5", "8", "0", "8">>
                             ELSE <<"9", "2", "2", "3", "3", "7", "2", "0", "3", "6",
                                    "8", "5", "4", "7", "7", "5", "8", "0", "7">>

\* whether the checked accumulation of the digits stays inside iN
InRange(bits, neg, ds) ==
    LET s == StripZeros(ds)
        m == MaxMagnitude(bits, neg)
    IN  Len(s) < Len(m) \/ (Len(s) = Len(m) /\ DigitsLE(s, m))

RECURSIVE Accumulate(_, _, _)
\* result = result * 10 -/+ digit, the way from_str_radix builds the number
Accumulate(ds, acc, neg) ==
    IF Len(ds) = 0 THEN acc
    ELSE Accumulate(Tail(ds),
                    IF neg THEN acc * 10 - DigitOf(ds[1]) ELSE acc * 10 + DigitOf(ds[1]),
                    neg)

\* value.parse::<iN>(): Ok(n), or Err for an empty string, a lone sign, a
\* character that is no digit, or a number outside iN
StrParse(bits, value) ==
    IF Len(value) = 0 THEN [ok |-> FALSE, val |-> 0]
    ELSE LET neg == value[1] = "-"
             ds  == IF value[1] \in {"-", "+"} THEN Tail(value) ELSE value
         IN  IF Len(ds) = 0 \/ \E i \in 1..Len(ds) : ~IsDigit(ds[i])
                 THEN [ok |-> FALSE, val |-> 0]
             ELSE IF ~InRange(bits, neg, ds) THEN [ok |-> FALSE, val |-> 0]
             ELSE [ok |-> TRUE, val |-> Accumulate(ds, 0, neg)]

-----------------------------------------------------------------------------
(* DynamicQuery: construction and SQL generation.                          *)

Ok(v) == [kind |-> "Ok", v |-> v]

Err(msg) == [kind |-> "Err", msg |-> msg]

\* an unwinding panic: the caller gets no Result at all
Panic == [kind |-> "Panic"]

\* ColTypeInfo::new
ColTypeInfo(info) == [col_type |-> info.col_type, oci_data_type |-> info.oci_data_type]

\* a value of enum ParsedParameter
ParsedParameter(variant, val) == [variant |-> variant, val |-> val]

\* value.parse().unwrap() of one integer arm of ParsedParameter::parse
ParseArm(variant, bits, value) ==
    LET val == StrParse(bits, value)
    IN  IF val.ok THEN Ok(ParsedParameter(variant, val.val)) ELSE Panic

\* ParsedParameter::parse
parse(tp, value) ==
    CASE tp = "Int16"   -> ParseArm("Int16", 16, value)
      [] tp = "Int32"   -> ParseArm("Int32", 32, value)
      [] tp = "Int64"   -> ParseArm("Int64", 64, value)
      [] tp = "Varchar" -> Ok(ParsedParameter("Varchar", value))
      [] OTHER          -> Err("Not supported type for Primary key")

\* the columns and column_names both constructors copy from the metadata
AllColumns == [i \in 1..Len(table_info.columns) |-> ColTypeInfo(table_info.columns[i])]

AllColumnNames == [i \in 1..Len(table_info.columns) |-> table_info.columns[i].name]

\* format!("{}.{}", schema_name, table_info.name)
QualifiedName == schema_name \o "." \o table_info.name

DynamicQuery(param_columns, param_column_names, parsed_params) ==
    [table_name         |-> QualifiedName,
     columns            |-> AllColumns,
     column_names       |-> AllColumnNames,
     param_columns      |-> param_columns,
     param_column_names |-> param_column_names,
     parsed_params      |-> parsed_params]

\* DynamicQuery::create_from_pk
create_from_pk(primary_key, parameter) ==
    IF primary_key.kind = "None" THEN Err("Primary key not exists")
    ELSE LET pk_indices == primary_key.column_indices
         IN  IF Len(pk_indices) > 1 THEN Err("Primary key must have only ONE column")
             ELSE LET pk_column == table_info.columns[pk_indices[1] + 1]
                      parsed    == parse(pk_column.col_type, parameter)
                  IN  IF parsed.kind = "Ok"
                          THEN Ok(DynamicQuery(<<ColTypeInfo(pk_column)>>,
                                               <<pk_column.name>>,
                                               <<parsed.v>>))
                          ELSE parsed

\* table_info.columns.iter().find(|c| &c.name == col_name): the first match
FindColumn(col_name) ==
    LET hits == {i \in 1..Len(table_info.columns) : table_info.columns[i].name = col_name}
    IN  IF hits = {} THEN None
        ELSE [kind |-> "Some",
              column |-> table_info.columns[CHOOSE i \in hits : \A j \in hits : i <= j]]

RECURSIVE FiltersLoop(_, _, _, _)
\* the for loop of create_from_params over the filters still to process
FiltersLoop(parameters, param_columns, param_column_names, parsed_params) ==
    IF Len(parameters) = 0
        THEN Ok(DynamicQuery(param_columns, param_column_names, parsed_params))
    ELSE LET col_name == parameters[1][1]
             p        == parameters[1][2]
             column   == FindColumn(col_name)
         IN  IF column.kind = "None" THEN Err("Not found column " \o col_name)
             ELSE LET parsed == parse(column.column.col_type, p)
                  IN  CASE parsed.kind = "Panic" -> Panic
                        [] parsed.kind = "Err" ->
                             Err("Can not parse parameter value " \o Concat(p)
                                 \o " for column " \o col_name \o ": " \o parsed.msg)
                        [] OTHER ->
                             FiltersLoop(Tail(parameters),
                                         Append(param_columns, ColTypeInfo(column.column)),
                                         Append(param_column_names, col_name),
                                         Append(parsed_params, parsed.v))

\* a create_from_params that checks every value of a known column before it
\* looks the names up in order
create_from_params_values_first(parameters) ==
    IF \E i \in 1..Len(parameters) :
            /\ FindColumn(parameters[i][1]).kind = "Some"
            /\ parse(FindColumn(parameters[i][1]).column.col_type, parameters[i][2]).kind # "Ok"
        THEN LET i == CHOOSE j \in 1..Len(parameters) :
                        /\ FindColumn(parameters[j][1]).kind = "Some"
                        /\ parse(FindColumn(parameters[j][1]).column.col_type,
                                 parameters[j][2]).kind # "Ok"
             IN  FiltersLoop(<<parameters[i]>>, <<>>, <<>>, <<>>)
        ELSE FiltersLoop(parameters, <<>>, <<>>, <<>>)

\* DynamicQuery::create_from_params
create_from_params(parameters) == FiltersLoop(parameters, <<>>, <<>>, <<>>)

\* the "{} = :{}" predicates of generate_sql, numbered idx+1
EnumeratedParamColumns(names) ==
    [i \in 1..Len(names) |-> names[i] \o " = :" \o ToString(i)]

\* DynamicQuery::generate_sql
generate_sql(q) ==
    "SELECT " \o JoinStr(q.column_names, ",") \o " FROM " \o q.table_name
        \o " WHERE " \o JoinStr(EnumeratedParamColumns(q.param_column_names), " AND ")

\* DynamicParamsProvider::members
members(provider) ==
    [i \in 1..Len(provider.columns) |->
        [descriptor |-> provider.columns[i].oci_data_type, identifier |-> "Unnamed"]]

\* DynamicResultsProvider::sql_descriptors
sql_descriptors(provider) ==
    [i \in 1..Len(provider.columns) |-> provider.columns[i].oci_data_type]

-----------------------------------------------------------------------------
(* Typed values, as the codecs produce and consume them.                   *)

\* an integer that fits the checker's integers
Num(n) == [int |-> n]

\* an integer that does not: it stands as its little-endian bytes
Big(raw) == [raw |-> raw]

\* a Rust String: its bytes
Str(bytes) == [bytes |-> bytes]

Bool(b) == [bool |-> b]

\* an f64, as its IEEE-754 image (8 bytes, little-endian)
F64(image) == [f64 |-> image]

SqlDate(y, m, d) == [y |-> y, m |-> m, d |-> d]

SqlDateTime(y, m, d, hh, mm, ss) ==
    [y |-> y, m |-> m, d |-> d, hh |-> hh, mm |-> mm, ss |-> ss]

\* Local::now(): whatever the clock says
Now == [now |-> TRUE]

Some(x) == [some |-> x]

NoneValue == [none |-> TRUE]

\* the printable ASCII characters, from 32 (space) to 126 (~); the entry of
\* 96, the grave accent, which a string of this language cannot hold, is empty
Ascii ==
    <<" ", "!", "\"", "#", "$", "%", "&", "'", "(", ")", "*", "+", ",", "-", ".", "/",
      "0", "1", "2", "3", "4", "5", "6", "7", "8", "9", ":", ";", "<", "=", ">", "?",
      "@", "A", "B", "C", "D", "E", "F", "G", "H", "I", "J", "K", "L", "M", "N", "O",
      "P", "Q", "R", "S", "T", "U", "V", "W", "X", "Y", "Z", "[", "\\", "]", "^", "_",
      "", "a", "b", "c", "d", "e", "f", "g", "h", "i", "j", "k", "l", "m", "n", "o",
      "p", "q", "r", "s", "t", "u", "v", "w", "x", "y", "z", "{", "|", "}", "~">>

ByteOf(c) == 31 + (CHOOSE i \in 1..Len(Ascii) : Ascii[i] = c)

\* str::as_bytes of a character sequence
AsBytes(cs) == [i \in 1..Len(cs) |-> ByteOf(cs[i])]

CharOf(b) == IF b >= 32 /\ b <= 126 THEN Ascii[b - 31] ELSE "?"

\* Rust's integer division and remainder truncate toward zero
TruncDiv(a, b) == IF a >= 0 THEN a \div b ELSE -((-a) \div b)

TruncRem(a, b) == a - b * TruncDiv(a, b)

\* `x as u8`
AsU8(x) == x % 256

\* mem::size_of::<T>() of the types the macro is instantiated for
SizeOf(T) ==
    CASE T \in {"i16", "u16"}        -> 2
      [] T \in {"i32", "u32"}        -> 4
      [] T \in {"i64", "u64", "f64"} -> 8

Signed(T) == T \in {"i16", "i32", "i64"}

PrimitiveTypes == {"i16", "u16", "i32", "u32", "i64", "u64", "f64"}

RECURSIVE LEBytes(_, _)
\* the two's-complement bytes of n, least significant first
LEBytes(n, w) == IF w = 0 THEN <<>> ELSE <<n % 256>> \o LEBytes(n \div 256, w - 1)

RECURSIVE BytesVal(_, _)
BytesVal(bytes, signed) ==
    IF Len(bytes) = 1
        THEN (IF signed /\ bytes[1] >= 128 THEN bytes[1] - 256 ELSE bytes[1])
        ELSE bytes[1] + 256 * BytesVal(Tail(bytes), signed)

\* whether the integer held by the bytes lies in -2^31 .. 2^31-1
Fits(bytes, signed) ==
    LET w   == Len(bytes)
        neg == signed /\ bytes[w] >= 128
    IN  \/ w < 4
        \/ w = 4 /\ (signed \/ bytes[4] < 128)
        \/ /\ w > 4
           /\ IF neg THEN bytes[4] >= 128 /\ \A k \in 5..w : bytes[k] = 255
                     ELSE bytes[4] < 128 /\ \A k \in 5..w : bytes[k] = 0

\* the object representation of a primitive (what the transmuted store writes)
ToNative(T, self) == IF T = "f64" THEN self.f64 ELSE LEBytes(self.int, SizeOf(T))

\* the primitive an object representation holds (what the transmuted load reads)
FromNative(T, bytes) ==
    IF T = "f64" THEN F64(bytes)
    ELSE IF Fits(bytes, Signed(T)) THEN Num(BytesVal(bytes, Signed(T)))
    ELSE Big(bytes)

\* Default::default() of a primitive
DefaultOf(T) == IF T = "f64" THEN F64(<<0, 0, 0, 0, 0, 0, 0, 0>>) ELSE Num(0)

-----------------------------------------------------------------------------
(* The param buffer and its per-slot write handles.                        *)

\* the bytes of one indicator
IndSize == 2

RECURSIVE SlotBase(_, _)
\* the offset of slot idx (0-based): every slot before it takes its data
\* bytes and its indicator
SlotBase(shape, idx) ==
    IF idx = 0 THEN 0 ELSE SlotBase(shape, idx - 1) + shape[idx] + IndSize

\* a freshly allocated buffer for the shape
AllocBuffer(shape) == [k \in 1..SlotBase(shape, Len(shape)) |-> 0]

\* the handle of slot idx: where its data and its indicator are, and how
\* many data bytes it has
ParamValue(shape, idx) ==
    [data     |-> SlotBase(shape, idx),
     indp     |-> SlotBase(shape, idx) + shape[idx + 1],
     capacity |-> shape[idx + 1]]

\* ptr::copy / a store through a raw pointer: the bytes land at offset `at`
\* whatever the cell's capacity; the part past the buffer is not in mem
Store(mem, at, bytes) ==
    [k \in 1..Len(mem) |-> IF k > at /\ k <= at + Len(bytes) THEN bytes[k - at] ELSE mem[k]]

\* whether such a store reaches past the end of the buffer
Overruns(mem, at, n) == at + n > Len(mem)

Load(mem, at, n) == [k \in 1..n |-> mem[at + k]]

\* the indicator at indp, a signed 16-bit integer
Indicator(mem, indp) == BytesVal(Load(mem, indp, IndSize), TRUE)

\* what a writer closure leaves: the memory, the length it returns, and
\* whether it wrote past the buffer
Written(mem, n, over) == [mem |-> mem, ret |-> n, over |-> over]

\* ParamValue::project(src, writer): the data pointer and the indicator
\* pointer it calls the writer with; it writes nothing itself
project(p) == [data |-> p.data, indp |-> p.indp]

-----------------------------------------------------------------------------
(* The encoders: impl ValueProjector<T> for T.  Each hands project a       *)
(* writer closure; the closure is an operator of the memory and the two    *)
(* pointers.                                                               *)

\* the closure of convert_sql_and_primitive!(T)'s project_value
write_primitive(T, self, m, data, indp) ==
    Written(Store(m, data, ToNative(T, self)), 0, Overruns(m, data, SizeOf(T)))

\* convert_sql_and_primitive!(T): project_value
project_value_primitive(T, self, mem, p) ==
    write_primitive(T, self, mem, project(p).data, project(p).indp)

\* the closure of String's project_value
write_String(self, m, data, indp) ==
    LET str_len == Len(self.bytes)
    IN  IF str_len = 0
            THEN Written(Store(m, indp, LEBytes(-1, IndSize)), str_len,
                         Overruns(m, indp, IndSize))
            ELSE Written(Store(m, data, self.bytes), str_len, Overruns(m, data, str_len))

\* impl ValueProjector<String> for String
project_value_String(self, mem, p) ==
    write_String(self, mem, project(p).data, project(p).indp)

\* the closure of &str's project_value
write_str(self, m, data, indp) ==
    LET str_len == Len(self.bytes)
    IN  IF str_len = 0
            THEN Written(Store(m, indp, LEBytes(-1, IndSize)), str_len,
                         Overruns(m, indp, IndSize))
            ELSE Written(Store(m, data, self.bytes), str_len, Overruns(m, data, str_len))

\* impl ValueProjector<&str> for &str
project_value_str(self, mem, p) ==
    write_str(self, mem, project(p).data, project(p).indp)

\* the closure of bool's project_value
write_bool(self, m, data, indp) ==
    LET val == IF self.bool THEN 1 ELSE 0
    IN  Written(Store(m, data, LEBytes(val, 2)), 0, Overruns(m, data, 2))

\* impl ValueProjector<bool> for bool
project_value_bool(self, mem, p) ==
    write_bool(self, mem, project(p).data, project(p).indp)

\* the closure of SqlDate's project_value
write_SqlDate(self, m, data, indp) ==
    LET century == AsU8(TruncDiv(self.y, 100) + 100)
        year    == AsU8(TruncRem(self.y, 100) + 100)
        month   == AsU8(self.m)
        day     == AsU8(self.d)
    IN  Written(Store(m, data, <<century, year, month, day, 1, 1, 1>>), 0,
                Overruns(m, data, 7))

\* impl ValueProjector<SqlDate> for SqlDate
project_value_SqlDate(self, mem, p) ==
    write_SqlDate(self, mem, project(p).data, project(p).indp)

-----------------------------------------------------------------------------
(* The decoders: impl From<&ResultValue> for T.  A ResultValue v is the    *)
(* memory it points into (mem), the offset of its data (valp), the value   *)
(* of its indicator (ind) and the length of its data (len).                *)

ResultValue(mem, valp, ind, len) == [mem |-> mem, valp |-> valp, ind |-> ind, len |-> len]

\* ResultValue::map_or(default, f) and ResultValue::map(f): the cell is NULL,
\* and f is not called, when its indicator is -1
IsNull(v) == v.ind = -1

\* convert_sql_and_primitive!(T): From<&ResultValue> for T
from_primitive(T, v) ==
    Ok(IF IsNull(v) THEN DefaultOf(T)
       ELSE FromNative(T, Load(v.mem, v.valp, SizeOf(T))))

\* convert_sql_and_primitive!(T): From<&ResultValue> for Option<T>
from_option_primitive(T, v) ==
    Ok(IF IsNull(v) THEN NoneValue
       ELSE Some(FromNative(T, Load(v.mem, v.valp, SizeOf(T)))))

\* impl From<&ResultValue> for String
from_String(v) ==
    Ok(IF IsNull(v) THEN Str(<<>>) ELSE Str(Load(v.mem, v.valp, v.len)))

\* impl From<&ResultValue> for bool
from_bool(v) ==
    LET int_val == IF IsNull(v) THEN Num(0) ELSE FromNative("u16", Load(v.mem, v.valp, 2))
    IN  Ok(Bool(int_val = Num(0)))

IsLeap(y) == y % 4 = 0 /\ (y % 100 # 0 \/ y % 400 = 0)

DaysIn(y, m) ==
    CASE m \in {4, 6, 9, 11} -> 30
      [] m = 2               -> IF IsLeap(y) THEN 29 ELSE 28
      [] OTHER               -> 31

\* the dates Local.ymd accepts; it panics on any other
ValidDate(y, m, d) == m >= 1 /\ m <= 12 /\ d >= 1 /\ d <= DaysIn(y, m)

\* the times and_hms accepts; it panics on any other
ValidTime(hh, mm, ss) == hh < 24 /\ mm < 60 /\ ss < 60

\* impl From<&ResultValue> for SqlDate
from_SqlDate(v) ==
    IF IsNull(v) THEN Ok(Now)
    ELSE IF v.len # 7 THEN Panic
    ELSE LET vec == Load(v.mem, v.valp, 7)
             y   == (vec[1] - 100) * 100 + vec[2] - 100
             m   == vec[3]
             d   == vec[4]
         IN  IF ValidDate(y, m, d) THEN Ok(SqlDate(y, m, d)) ELSE Panic

\* impl From<&ResultValue> for SqlDateTime
from_SqlDateTime(v) ==
    IF IsNull(v) THEN Ok(Now)
    ELSE IF v.len # 11 THEN Panic
    ELSE LET vec == Load(v.mem, v.valp, 11)
             y   == (vec[1] - 100) * 100 + vec[2] - 100
             m   == vec[3]
             d   == vec[4]
             hh  == vec[5]
             mm  == vec[6]
             ss  == vec[7]
         IN  IF ValidDate(y, m, d) /\ ValidTime(hh, mm, ss)
                 THEN Ok(SqlDateTime(y, m, d, hh, mm, ss))
                 ELSE Panic

-----------------------------------------------------------------------------
(* The dynamic providers and prepare_query.                                *)

\* DynamicResultsProvider { columns, column_names } of prepare_query
results_provider(q) == [columns |-> q.columns, column_names |-> q.column_names]

\* a params provider built over every column of the table
params_provider_all_columns(q) == [columns |-> q.columns]

\* DynamicParamsProvider { columns: self.param_columns } of prepare_query
params_provider(q) == [columns |-> q.param_columns]

\* DynamicQuery::prepare_query, when the native prepare and define succeed
prepare_query(q) ==
    [sql              |-> generate_sql(q),
     results_provider |-> results_provider(q),
     params_provider  |-> params_provider(q),
     params           |-> q.parsed_params]

\* the param buffer the statement allocates at prepare: one slot per member
\* the provider publishes, as wide as the member's descriptor says
ShapeOf(ms) == [i \in 1..Len(ms) |-> ms[i].descriptor.size]

\* ParsedParameter::project_value
project_value(param, mem, p) ==
    CASE param.variant = "Int16" -> project_value_primitive("i16", Num(param.val), mem, p)
      [] param.variant = "Int32" -> project_value_primitive("i32", Num(param.val), mem, p)
      [] param.variant = "Int64" -> project_value_primitive("i64", Num(param.val), mem, p)
      [] OTHER                   -> project_value_String(Str(AsBytes(param.val)), mem, p)

\* what the harness remembers of one project_value call
WriteRecord(tp, val, n) == [tp |-> tp, val |-> val, ret |-> n]

NoWrite == [tp |-> "none"]

\* the Rust value a ParsedParameter carries, and its type
CarriedType(param) ==
    CASE param.variant = "Int16" -> "i16"
      [] param.variant = "Int32" -> "i32"
      [] param.variant = "Int64" -> "i64"
      [] OTHER                   -> "String"

CarriedValue(param) ==
    IF param.variant = "Varchar" THEN Str(AsBytes(param.val)) ELSE Num(param.val)

\* the state project_values threads through its loop
Projection(mem, idxs, log, over, n) ==
    [mem |-> mem, slots |-> idxs, log |-> log, over |-> over, ret |-> n]

RECURSIVE project_values_from(_, _, _, _)
\* DynamicParamsProvider::project_values, from params[idx] on.  Indexing a
\* slot the projection does not have (get_unchecked_mut) hands out a handle
\* outside the buffer: the write lands outside mem
project_values_from(params, idx, shape, acc) ==
    IF idx >= Len(params) THEN acc
    ELSE IF idx >= Len(shape)
        THEN project_values_from(params, idx + 1, shape,
                                 Projection(acc.mem, Append(acc.slots, idx), acc.log,
                                            TRUE, acc.ret))
    ELSE LET param == params[idx + 1]
             w     == project_value(param, acc.mem, ParamValue(shape, idx))
         IN  project_values_from(params, idx + 1, shape,
                                 Projection(w.mem, Append(acc.slots, idx),
                                            [acc.log EXCEPT ![idx + 1] =
                                                WriteRecord(CarriedType(param),
                                                            CarriedValue(param), w.ret)],
                                            acc.over \/ w.over, w.ret))

\* DynamicParamsProvider::project_values
project_values(params, shape, mem) ==
    project_values_from(params, 0, shape,
                        Projection(mem, <<>>, [i \in 1..Len(shape) |-> NoWrite], FALSE, 0))

-----------------------------------------------------------------------------
(* The DynamicQuery pipeline: create, prepare, execute.                    *)

Filters == ParamNames \X ParamStrings

FilterLists == UNION {[1..n -> Filters] : n \in 0..MaxFilters}

InitQuery ==
    /\ pc = "idle"
    /\ call = None
    /\ result = None
    /\ stmt = None
    /\ pshape = <<>>
    /\ pmem = <<>>
    /\ fault = "none"
    /\ slots = <<>>
    /\ written = <<>>
    /\ ret = 0
    /\ rs = <<>>
    /\ decoded = None
    /\ rendered = None

\* a caller builds a query from a primary-key value
CreateFromPk ==
    /\ pc = "idle"
    /\ \E primary_key \in PrimaryKeys, parameter \in ParamStrings :
        /\ call' = [op |-> "create_from_pk", primary_key |-> primary_key,
                    parameters |-> <<parameter>>]
        /\ result' = create_from_pk(primary_key, parameter)
    /\ fault' = IF result'.kind = "Panic" THEN "panic" ELSE "none"
    /\ pc' = "created"
    /\ UNCHANGED <<stmt, pshape, pmem, slots, written, ret, rs, decoded, rendered>>

\* a caller builds a query from column filters
CreateFromParams ==
    /\ pc = "idle"
    /\ \E parameters \in FilterLists :
        /\ call' = [op |-> "create_from_params", primary_key |-> None,
                    parameters |-> parameters]
        /\ result' = create_from_params(parameters)
    /\ fault' = IF result'.kind = "Panic" THEN "panic" ELSE "none"
    /\ pc' = "created"
    /\ UNCHANGED <<stmt, pshape, pmem, slots, written, ret, rs, decoded, rendered>>

\* fetch_one / fetch_many: prepare_query on a query that was built; the
\* statement binds the members and allocates the param buffer
PrepareQuery ==
    /\ pc = "created"
    /\ result.kind = "Ok"
    /\ stmt' = prepare_query(result.v)
    /\ pshape' = ShapeOf(members(stmt'.params_provider))
    /\ pmem' = AllocBuffer(pshape')
    /\ pc' = "prepared"
    /\ UNCHANGED <<call, result, fault, slots, written, ret, rs, decoded, rendered>>

\* the native layer rejects the statement: prepare_query returns Err
PrepareError ==
    /\ pc = "created"
    /\ result.kind = "Ok"
    /\ pc' = "failed"
    /\ UNCHANGED <<call, result, stmt, pshape, pmem, fault, slots, written, ret,
                   rs, decoded, rendered>>

\* query.fetch_one(params) / fetch_list(params): execute fills the param
\* buffer through the provider's project_values
Execute ==
    /\ pc = "prepared"
    /\ LET done == project_values(stmt.params, pshape, pmem)
       IN  /\ pmem' = done.mem
           /\ slots' = done.slots
           /\ ret' = done.ret
           /\ written' = done.log
           /\ fault' \in (IF done.over THEN {"none", "segv"} ELSE {"none"})
    /\ pc' = "executed"
    /\ UNCHANGED <<call, result, stmt, pshape, rs, decoded, rendered>>

NextQuery ==
    \/ CreateFromPk
    \/ CreateFromParams
    \/ PrepareQuery
    \/ PrepareError
    \/ Execute

SpecQuery == InitQuery /\ [][NextQuery]_vars

-----------------------------------------------------------------------------
(* Properties of DynamicQuery.                                             *)

IntegerBits(tp) ==
    CASE tp = "Int16" -> 16
      [] tp = "Int32" -> 32
      [] tp = "Int64" -> 64
      [] OTHER        -> 0

\* the column a create call resolves a filter name to, if any
ColumnOf(name) == FindColumn(name)

\* a string that is no valid integer of the integer column it is meant for
BadIntegerFor(column, value) ==
    /\ IntegerBits(column.col_type) > 0
    /\ ~StrParse(IntegerBits(column.col_type), value).ok

\* the last call handed an integer column a string that is no integer of its
\* type
CallHasBadInteger ==
    \/ /\ call.op = "create_from_pk"
       /\ call.primary_key.kind = "Some"
       /\ Len(call.primary_key.column_indices) = 1
       /\ BadIntegerFor(table_info.columns[call.primary_key.column_indices[1] + 1],
                        call.parameters[1])
    \/ /\ call.op = "create_from_params"
       /\ \E i \in 1..Len(call.parameters) :
            /\ ColumnOf(call.parameters[i][1]).kind = "Some"
            /\ BadIntegerFor(ColumnOf(call.parameters[i][1]).column, call.parameters[i][2])

\* C5: a string that is not a valid integer of its Int16/Int32/Int64 column
\* makes create_from_pk and create_from_params return an Err value; they do
\* not panic and produce no DynamicQuery.
C5_BadIntegerIsErr ==
    (pc = "created" /\ CallHasBadInteger) => result.kind = "Err"

\* whether create_from_params fails on a filter taken alone
FilterFails(f) ==
    \/ ColumnOf(f[1]).kind = "None"
    \/ parse(ColumnOf(f[1]).column.col_type, f[2]).kind # "Ok"

\* the position of the first filter that fails, 0 when none does
FirstFailing(parameters) ==
    IF \E i \in 1..Len(parameters) : FilterFails(parameters[i])
        THEN CHOOSE i \in 1..Len(parameters) :
                /\ FilterFails(parameters[i])
                /\ \A j \in 1..(i - 1) : ~FilterFails(parameters[j])
        ELSE 0

\* C6: create_from_params takes the filters in the order given; when the
\* first filter that fails names a column the table does not have, the call
\* returns Err("Not found column <name>") for that name and builds no query,
\* whatever the later filters are.
C6_UnknownColumnReported ==
    (/\ pc = "created"
     /\ call.op = "create_from_params"
     /\ FirstFailing(call.parameters) > 0
     /\ ColumnOf(call.parameters[FirstFailing(call.parameters)][1]).kind = "None")
    => result = Err("Not found column "
                    \o call.parameters[FirstFailing(call.parameters)][1])

\* C6's case: a filter that parses, then an unknown column, reported by name
C6_Witness ==
    /\ pc = "created"
    /\ call.op = "create_from_params"
    /\ Len(call.parameters) = 2
    /\ FirstFailing(call.parameters) = 2
    /\ call.parameters[2][1] = "FOO"
    /\ result = Err("Not found column FOO")

\* the names of the columns the last call filters on, in declaration order
FilterNames ==
    IF call.op = "create_from_pk"
        THEN <<table_info.columns[call.primary_key.column_indices[1] + 1].name>>
        ELSE [i \in 1..Len(call.parameters) |-> call.parameters[i][1]]

\* the statement text up to and including the WHERE keyword
SelectFromWhere == "SELECT ID,NAME,HIRED,AGE,SALARY,UPDATED FROM HR.EMP WHERE "

\* the predicate the claim gives the i-th filter column
Predicate(names, i) == names[i] \o " = :" \o ToString(i)

\* C7: for every query that was built, generate_sql returns SELECT <all
\* columns, in catalog order> FROM <schema>.<table> WHERE <c1 = :1 AND ...>
\* with one predicate per filter, in order, numbered from 1, and the WHERE
\* clause is never empty.
C7_SqlShape ==
    (pc \in {"prepared", "executed"}) =>
        /\ stmt.sql = SelectFromWhere
                        \o JoinStr([i \in 1..Len(FilterNames) |-> Predicate(FilterNames, i)],
                                   " AND ")
        /\ stmt.sql # SelectFromWhere

\* the ParsedParameter variant that belongs to a column type
VariantOf(tp) == tp

\* every query handed back as Ok keeps its three parameter lists aligned
Aligned(q) ==
    /\ Len(q.param_columns) = Len(q.parsed_params)
    /\ Len(q.param_column_names) = Len(q.parsed_params)
    /\ \A i \in 1..Len(q.parsed_params) :
        q.parsed_params[i].variant = VariantOf(q.param_columns[i].col_type)

\* C10: a query returned as Ok has param_columns, param_column_names and
\* parsed_params of one length k, each parsed parameter of the variant of its
\* column's type; the SQL has the placeholders :1..:k, members() publishes k
\* members, and project_values indexes the slots 0..k-1 only, each of which
\* has a member.
C10_ParameterAlignment ==
    /\ (pc # "idle" /\ result.kind = "Ok") => Aligned(result.v)
    /\ (pc \in {"prepared", "executed"}) =>
        LET k == Len(result.v.parsed_params)
        IN  /\ stmt.sql = SelectFromWhere
                    \o JoinStr([i \in 1..k |-> Predicate(result.v.param_column_names, i)],
                               " AND ")
            /\ Len(members(stmt.params_provider)) = k
            /\ Len(pshape) = k
            /\ \A i \in 1..k :
                pshape[i] = result.v.param_columns[i].oci_data_type.size
    /\ (pc = "executed") =>
        /\ slots = [i \in 1..Len(result.v.parsed_params) |-> i - 1]
        /\ \A i \in 1..Len(slots) : slots[i] < Len(members(stmt.params_provider))

\* C10's case: a two-filter query of different types was built, prepared and
\* executed
C10_Witness ==
    /\ pc = "executed"
    /\ Len(result.v.parsed_params) = 2
    /\ result.v.parsed_params[1].variant = "Int32"
    /\ result.v.parsed_params[2].variant = "Varchar"
    /\ slots = <<0, 1>>

-----------------------------------------------------------------------------
(* The codecs on a param buffer: a statement is executed again and again   *)
(* with different inputs, any encoder writing any slot, and a cell is then *)
(* read back through a decoder.                                            *)

\* the shape of the buffer: two slots of 8 data bytes
CodecShape == <<8, 8>>

IntegerTypes == PrimitiveTypes \ {"f64"}

\* the values written, per primitive type
PrimitiveInputs(T) ==
    CASE T = "i16" -> {Num(0), Num(-2), Num(32767)}
      [] T = "u16" -> {Num(1), Num(65535)}
      [] T = "i32" -> {Num(7), Num(-2147483647)}
      [] T = "u32" -> {Num(0), Num(65536)}
      [] T = "i64" -> {Num(-1), Num(2147483647)}
      [] T = "u64" -> {Num(255), Num(16777216)}
      [] OTHER     -> {F64(<<0, 0, 0, 0, 0, 0, 248, 63>>), F64(<<0, 0, 0, 0, 0, 0, 0, 192>>)}

\* the character values written: empty, short, and longer than a cell
StringInputs ==
    {Str(AsBytes(cs)) : cs \in { <<>>, <<"A">>, <<"A", "D", "A">>,
                                 <<"O", "V", "E", "R", "F", "L", "O", "W", "S">>,
                                 <<"O", "V", "E", "R", "F", "L", "O", "W", "I", "N", "G">> }}

BoolInputs == {Bool(TRUE), Bool(FALSE)}

DateInputs == {SqlDate(1999, 7, 15), SqlDate(2000, 1, 1), SqlDate(20000, 1, 1)}

SlotIds == 0..(Len(CodecShape) - 1)

InitCodec ==
    /\ pc = "projecting"
    /\ call = None
    /\ result = None
    /\ stmt = None
    /\ pshape = CodecShape
    /\ pmem = AllocBuffer(CodecShape)
    /\ fault = "none"
    /\ slots = <<>>
    /\ written = [i \in 1..Len(CodecShape) |-> NoWrite]
    /\ ret = 0
    /\ rs = <<>>
    /\ decoded = None
    /\ rendered = None

\* one project_value call into slot s has returned w
Projected(s, tp, val, w) ==
    /\ pmem' = w.mem
    /\ ret' = w.ret
    /\ slots' = Append(slots, s)
    /\ written' = [written EXCEPT ![s + 1] = WriteRecord(tp, val, w.ret)]
    /\ fault' \in (IF w.over THEN {"none", "segv"} ELSE {"none"})
    /\ UNCHANGED <<pc, call, result, stmt, pshape, rs, decoded, rendered>>

CanProject == pc = "projecting" /\ fault = "none" /\ Len(slots) < MaxWrites

ProjectPrimitive ==
    /\ CanProject
    /\ \E s \in SlotIds, T \in PrimitiveTypes :
        \E v \in PrimitiveInputs(T) :
            Projected(s, T, v, project_value_primitive(T, v, pmem, ParamValue(pshape, s)))

ProjectString ==
    /\ CanProject
    /\ \E s \in SlotIds, v \in StringInputs :
        Projected(s, "String", v, project_value_String(v, pmem, ParamValue(pshape, s)))

ProjectStr ==
    /\ CanProject
    /\ \E s \in SlotIds, v \in StringInputs :
        Projected(s, "&str", v, project_value_str(v, pmem, ParamValue(pshape, s)))

ProjectBool ==
    /\ CanProject
    /\ \E s \in SlotIds, v \in BoolInputs :
        Projected(s, "bool", v, project_value_bool(v, pmem, ParamValue(pshape, s)))

ProjectDate ==
    /\ CanProject
    /\ \E s \in SlotIds, v \in DateInputs :
        Projected(s, "SqlDate", v, project_value_SqlDate(v, pmem, ParamValue(pshape, s)))

Min(a, b) == IF a <= b THEN a ELSE b

\* the cell of slot s seen as a ResultValue: its data, its indicator, and as
\* its length the length last written for a character cell, the type's width
\* for the others, never more than the cell holds
CellView(s, width) ==
    LET p == ParamValue(pshape, s)
    IN  ResultValue(pmem, p.data, Indicator(pmem, p.indp), Min(width, p.capacity))

CharLen(s) == IF written[s + 1].tp = "none" THEN 0 ELSE written[s + 1].ret

\* one From<&ResultValue> conversion of slot s has returned out
Decoded(s, tp, out) ==
    /\ decoded' = [slot |-> s, tp |-> tp,
                   ind |-> Indicator(pmem, ParamValue(pshape, s).indp), out |-> out]
    /\ fault' = IF out.kind = "Panic" THEN "panic" ELSE fault
    /\ pc' = "decoded"
    /\ UNCHANGED <<call, result, stmt, pshape, pmem, slots, written, ret, rs, rendered>>

CanDecode == pc = "projecting" /\ fault = "none"

\* the name of Option<T>
OptionOf(T) == "Option<" \o T \o ">"

DecodePrimitive ==
    /\ CanDecode
    /\ \E s \in SlotIds, T \in PrimitiveTypes :
        Decoded(s, T, from_primitive(T, CellView(s, SizeOf(T))))

DecodeOption ==
    /\ CanDecode
    /\ \E s \in SlotIds, T \in PrimitiveTypes :
        Decoded(s, OptionOf(T), from_option_primitive(T, CellView(s, SizeOf(T))))

DecodeString ==
    /\ CanDecode
    /\ \E s \in SlotIds : Decoded(s, "String", from_String(CellView(s, CharLen(s))))

DecodeBool ==
    /\ CanDecode
    /\ \E s \in SlotIds : Decoded(s, "bool", from_bool(CellView(s, 2)))

DecodeDate ==
    /\ CanDecode
    /\ \E s \in SlotIds : Decoded(s, "SqlDate", from_SqlDate(CellView(s, 7)))

NextCodec ==
    \/ ProjectPrimitive
    \/ ProjectString
    \/ ProjectStr
    \/ ProjectBool
    \/ ProjectDate
    \/ DecodePrimitive
    \/ DecodeOption
    \/ DecodeString
    \/ DecodeBool
    \/ DecodeDate

SpecCodec == InitCodec /\ [][NextCodec]_vars

-----------------------------------------------------------------------------
(* Properties of the codecs.                                               *)

\* the decoder that belongs to an encoder's type
DecoderOf(tp) == IF tp = "&str" THEN "String" ELSE tp

\* the most recent project_value call wrote slot s
LastWriteTo(s) == Len(slots) > 0 /\ slots[Len(slots)] = s

IsCharacter(w) == w.tp \in {"String", "&str"}

\* a written value that stands for SQL NULL: the empty string
IsNullValue(w) == IsCharacter(w) /\ Len(w.val.bytes) = 0

\* C1: for every supported type T and every non-null value v of T, writing v
\* into a parameter cell with T's encoder and then reading that cell with T's
\* decoder, the indicator being 0, yields v again; in particular true decodes
\* to true and false to false.
C1_ScalarRoundTrip ==
    (/\ pc = "decoded"
     /\ LastWriteTo(decoded.slot)
     /\ decoded.tp = DecoderOf(written[decoded.slot + 1].tp)
     /\ ~IsNullValue(written[decoded.slot + 1])
     /\ decoded.ind = 0)
    => decoded.out = Ok(written[decoded.slot + 1].val)

\* the null value of a decoder's target type
NullValueOf(tp) ==
    CASE tp = "String" -> Str(<<>>)
      [] tp = "bool"   -> Bool(FALSE)
      [] tp = "f64"    -> F64(<<0, 0, 0, 0, 0, 0, 0, 0>>)
      [] tp \in IntegerTypes -> Num(0)
      [] OTHER         -> NoneValue

\* C2: encoding a NULL (an empty string) sets the cell's indicator to -1, and
\* decoding a cell whose indicator is -1 yields the type's null value whatever
\* the data bytes: the empty string for Varchar, false for Boolean, zero for a
\* numeric target and None for an optional numeric target.
C2_NullRoundTrip ==
    /\ \A s \in 0..(Len(pshape) - 1) :
        (LastWriteTo(s) /\ IsNullValue(written[s + 1]) /\ fault = "none")
            => Indicator(pmem, ParamValue(pshape, s).indp) = -1
    /\ (pc = "decoded" /\ decoded.ind = -1 /\ decoded.tp # "SqlDate")
            => decoded.out = Ok(NullValueOf(decoded.tp))

\* a written value that is no longer than the cell (every primitive and date
\* fits the cells of the buffer)
FitsCell(s) ==
    IsCharacter(written[s + 1]) => Len(written[s + 1].val.bytes) <= pshape[s + 1]

\* C3: after any sequence of project_value calls into a slot, the slot's
\* indicator is -1 if the value written last was null or an empty string and
\* 0 otherwise (stated for a last value that fits the cell: C4 is about the
\* values that do not).
C3_IndicatorFollowsLastWrite ==
    \A s \in 0..(Len(pshape) - 1) :
        (written[s + 1].tp # "none" /\ FitsCell(s)) =>
            Indicator(pmem, ParamValue(pshape, s).indp)
                = (IF IsNullValue(written[s + 1]) THEN -1 ELSE 0)

\* the bytes of the buffer that are not data bytes of slot s
OutsideCell(s) ==
    LET p == ParamValue(pshape, s)
    IN  {k \in 1..Len(pmem) : k <= p.data \/ k > p.data + p.capacity}

\* C4: encoding a character value longer than the cell's capacity writes no
\* byte at or beyond the capacity (the neighbouring cells and the indicators
\* keep their bytes), and the length the writer returns is at most the
\* capacity.
C4_NoWritePastCapacity ==
    [][\A s \in 0..(Len(pshape) - 1) :
        (/\ slots' = Append(slots, s)
         /\ IsCharacter(written'[s + 1])
         /\ Len(written'[s + 1].val.bytes) > pshape[s + 1])
        => /\ ret' <= pshape[s + 1]
           /\ \A k \in OutsideCell(s) : pmem'[k] = pmem[k]
           /\ fault' = "none"]_vars

-----------------------------------------------------------------------------
(* The results side: a fetched row seen through the dynamic results        *)
(* provider and through the temporal decoders.                             *)

\* a result cell as the native fetch leaves it
Cell(data, ind, len) == [data |-> data, ind |-> ind, len |-> len]

\* the ResultValue the row view yields for a cell
ValueOf(cell) == ResultValue(cell.data, 0, cell.ind, cell.len)

Zeros(n) == [k \in 1..n |-> 0]

\* the cells a fetch may leave in a column of each type: valid data, NULL,
\* and for the integers a truncated value
SampleCells(tp) ==
    CASE tp = "Int32"   -> {Cell(LEBytes(7, 4), 0, 4), Cell(Zeros(4), -1, 0),
                            Cell(LEBytes(7, 4), 2, 4)}
      [] tp = "Int16"   -> {Cell(LEBytes(30, 2), 0, 2), Cell(Zeros(2), -1, 0)}
      [] tp = "Int64"   -> {Cell(LEBytes(5000, 8), 0, 8), Cell(LEBytes(5000, 8), 4, 8)}
      [] tp = "Varchar" -> {Cell(AsBytes(<<"A", "D", "A">>) \o <<0>>, 0, 3),
                            Cell(Zeros(4), -1, 0)}
      [] tp = "Date"    -> {Cell(<<119, 199, 7, 15, 1, 1, 1>>, 0, 7),
                            Cell(<<120, 100, 1, 1, 0, 0, 0>>, 0, 7),
                            Cell(Zeros(7), -1, 0)}
      [] OTHER          -> {Cell(<<120, 100, 1, 1, 1, 1, 1, 0, 0, 0, 0>>, 0, 11),
                            Cell(<<119, 199, 7, 15, 14, 31, 59, 0, 0, 0, 0>>, 0, 11),
                            Cell(<<119, 199, 12, 31, 24, 60, 60, 0, 0, 0, 0>>, 0, 11),
                            Cell(Zeros(11), -1, 0)}

\* the type of the i-th cell of a row view; a cell past the declared columns
\* is an integer cell
CellType(i) ==
    IF i <= Len(table_info.columns) THEN table_info.columns[i].col_type ELSE "Int32"

RECURSIVE RowsOfLen(_)
\* the row views of n cells
RowsOfLen(n) ==
    IF n = 0 THEN {<<>>}
    ELSE {Append(r, c) : r \in RowsOfLen(n - 1), c \in SampleCells(CellType(n))}

\* the row views: fewer cells than columns, as many, or one more
RowViews == UNION {RowsOfLen(n) : n \in 0..(Len(table_info.columns) + 1)}

Pad2(n) == IF n < 10 THEN "0" \o ToString(n) ELSE ToString(n)

IsoDate(v) == ToString(v.y) \o "-" \o Pad2(v.m) \o "-" \o Pad2(v.d)

IsoTime(v) == Pad2(v.hh) \o ":" \o Pad2(v.mm) \o ":" \o Pad2(v.ss)

Quoted(text) == "\"" \o text \o "\""

\* the text of a decoded integer
NumberText(x) == IF "int" \in DOMAIN x THEN ToString(x.int) ELSE "?"

\* ResultValue::try_to_string(&col_type): the JSON text of a cell; NULL is
\* null, a truncated numeric or temporal cell is an error
try_to_string(v, col_type) ==
    IF IsNull(v) THEN Ok("null")
    ELSE IF v.ind > 0 /\ col_type # "Varchar" THEN Err("value truncated")
    ELSE CASE col_type = "Int16" -> Ok(NumberText(from_primitive("i16", v).v))
           [] col_type = "Int32" -> Ok(NumberText(from_primitive("i32", v).v))
           [] col_type = "Int64" -> Ok(NumberText(from_primitive("i64", v).v))
           [] col_type = "Varchar" ->
                LET str == from_String(v).v.bytes
                IN  Ok(Quoted(Concat([i \in 1..Len(str) |-> CharOf(str[i])])))
           [] col_type = "Date" ->
                LET date == from_SqlDate(v)
                IN  IF date.kind = "Panic" THEN Panic ELSE Ok(Quoted(IsoDate(date.v)))
           [] OTHER ->
                LET time == from_SqlDateTime(v)
                IN  IF time.kind = "Panic" THEN Panic
                    ELSE Ok(Quoted(IsoDate(time.v) \o "T" \o IsoTime(time.v)))

\* the closure gen_result maps over the zipped triples: the key and the
\* value text of one cell, the error's text when the conversion fails
RenderCell(c, name, value) ==
    LET text == try_to_string(value, c.col_type)
    IN  CASE text.kind = "Panic" -> Panic
          [] text.kind = "Err"   -> Ok([key |-> name, value |-> text.msg])
          [] OTHER               -> Ok([key |-> name, value |-> text.v])

\* DynamicResultsProvider::gen_result: the zip stops at the shortest of
\* columns, column_names and the row view
gen_result(provider, row) ==
    LET n     == Min(Min(Len(provider.columns), Len(provider.column_names)), Len(row))
        cells == [i \in 1..n |->
                    RenderCell(provider.columns[i], provider.column_names[i], ValueOf(row[i]))]
    IN  IF \E i \in 1..n : cells[i].kind = "Panic" THEN Panic
        ELSE [kind  |-> "Ok",
              pairs |-> [i \in 1..n |-> cells[i].v],
              text  |-> "{ " \o JoinStr([i \in 1..n |->
                                            Quoted(cells[i].v.key) \o ":" \o cells[i].v.value],
                                        ",") \o " }"]

\* the query the rows are fetched for: SELECT ... WHERE ID = :1
FetchQuery == create_from_pk([kind |-> "Some", column_indices |-> <<0>>], <<"7">>).v

InitFetch ==
    /\ pc = "executed"
    /\ call = None
    /\ result = Ok(FetchQuery)
    /\ stmt = prepare_query(FetchQuery)
    /\ pshape = ShapeOf(members(params_provider(FetchQuery)))
    /\ pmem = project_values(FetchQuery.parsed_params, pshape, AllocBuffer(pshape)).mem
    /\ fault = "none"
    /\ slots = <<0>>
    /\ written = project_values(FetchQuery.parsed_params, pshape, AllocBuffer(pshape)).log
    /\ ret = 0
    /\ rs = <<>>
    /\ decoded = None
    /\ rendered = None

\* the native fetch fills the result buffer; the iterator yields a row view
FetchRow ==
    /\ pc = "executed"
    /\ rs' \in RowViews
    /\ pc' = "fetched"
    /\ UNCHANGED <<call, result, stmt, pshape, pmem, fault, slots, written, ret,
                   decoded, rendered>>

\* results_provider.gen_result(rs)
GenResult ==
    /\ pc = "fetched"
    /\ rendered' = gen_result(stmt.results_provider, rs)
    /\ fault' = IF rendered'.kind = "Panic" THEN "panic" ELSE fault
    /\ pc' = "rendered"
    /\ UNCHANGED <<call, result, stmt, pshape, pmem, slots, written, ret, rs, decoded>>

\* one temporal cell of the row has been converted
Converted(i, tp, out) ==
    /\ decoded' = [slot |-> i - 1, tp |-> tp, ind |-> rs[i].ind, out |-> out]
    /\ fault' = IF out.kind = "Panic" THEN "panic" ELSE fault
    /\ pc' = "decoded"
    /\ UNCHANGED <<call, result, stmt, pshape, pmem, slots, written, ret, rs, rendered>>

\* SqlDate::from(&value) on a Date cell of the row
ConvertDate ==
    /\ pc = "fetched"
    /\ \E i \in 1..Len(rs) :
        /\ CellType(i) = "Date"
        /\ Converted(i, "SqlDate", from_SqlDate(ValueOf(rs[i])))

\* SqlDateTime::from(&value) on a DateTime cell of the row
ConvertDateTime ==
    /\ pc = "fetched"
    /\ \E i \in 1..Len(rs) :
        /\ CellType(i) = "DateTime"
        /\ Converted(i, "SqlDateTime", from_SqlDateTime(ValueOf(rs[i])))

NextFetch ==
    \/ FetchRow
    \/ GenResult
    \/ ConvertDate
    \/ ConvertDateTime

SpecFetch == InitFetch /\ [][NextFetch]_vars

-----------------------------------------------------------------------------
(* Properties of the results side.                                         *)

C9_TemporalDecoding ==
    (pc = "decoded" /\ decoded.tp \in {"SqlDate", "SqlDateTime"} /\ decoded.ind # -1) =>
        LET b == rs[decoded.slot + 1].data
            y == (b[1] - 100) * 100 + (b[2] - 100)
        IN  decoded.out = Ok(IF decoded.tp = "SqlDate"
                                THEN SqlDate(y, b[3], b[4])
                                ELSE SqlDateTime(y, b[3], b[4], b[5] - 1, b[6] - 1, b[7] - 1))

=============================================================================
